---- MODULE Spec2Model ----
(***************************************************************************)
(* Model of plugins/deye_plugin_ha_discovery.py: the DeyeHADiscovery event *)
(* processor, which publishes Home Assistant MQTT discovery descriptors.   *)
(*                                                                         *)
(* Strings are TLA+ strings; TLC evaluates Len, \o, Head, Tail and SubSeq  *)
(* on them, so the string functions of the source (endswith, startswith,   *)
(* lower, replace, strip, split, fnmatch, re.match) are computed character *)
(* by character as Python computes them.                                   *)
(***************************************************************************)
EXTENDS Integers, Sequences, FiniteSets, TLC

(***************************************************************************)
(* Python string primitives used by the source                             *)
(***************************************************************************)

\* s[i] as a one-character string (1-based)
Char(s, i) == SubSeq(s, i, i)

UpperAlphabet == "ABCDEFGHIJKLMNOPQRSTUVWXYZ"

LowerAlphabet == "abcdefghijklmnopqrstuvwxyz"

Digits == "0123456789"

\* the lower-case letter of every upper-case letter
LowerOf == [c \in {Char(UpperAlphabet, k) : k \in 1..26} |->
               Char(LowerAlphabet, CHOOSE k \in 1..26 : Char(UpperAlphabet, k) = c)]

\* str.lower() on one character
LowerChar(c) == IF c \in DOMAIN LowerOf THEN LowerOf[c] ELSE c

RECURSIVE str_lower(_)
\* str.lower()
str_lower(s) ==
    IF s = "" THEN "" ELSE LowerChar(Head(s)) \o str_lower(Tail(s))

RECURSIVE str_replace(_, _, _)
\* str.replace(old, new) for a one-character old
str_replace(s, old, new) ==
    IF s = "" THEN ""
    ELSE (IF Head(s) = old THEN new ELSE Head(s)) \o str_replace(Tail(s), old, new)

\* str.endswith(suffix)
endswith(s, suffix) ==
    /\ Len(s) >= Len(suffix)
    /\ SubSeq(s, Len(s) - Len(suffix) + 1, Len(s)) = suffix

\* str.startswith(prefix)
startswith(s, prefix) ==
    /\ Len(s) >= Len(prefix)
    /\ SubSeq(s, 1, Len(prefix)) = prefix

\* the Python expression: sub in s
str_contains(s, sub) ==
    \E i \in 1..(Len(s) - Len(sub) + 1) : SubSeq(s, i, i + Len(sub) - 1) = sub

RECURSIVE str_lstrip(_, _)
\* str.lstrip(chars): drop leading characters that occur in chars
str_lstrip(s, chars) ==
    IF s # "" /\ str_contains(chars, Head(s)) THEN str_lstrip(Tail(s), chars) ELSE s

RECURSIVE str_rstrip(_, _)
\* str.rstrip(chars): drop trailing characters that occur in chars
str_rstrip(s, chars) ==
    IF s # "" /\ str_contains(chars, Char(s, Len(s)))
    THEN str_rstrip(SubSeq(s, 1, Len(s) - 1), chars)
    ELSE s

\* str.strip(chars)
str_strip(s, chars) == str_rstrip(str_lstrip(s, chars), chars)

\* the whitespace that str.strip() without an argument removes
Whitespace == " \t\n\r"

RECURSIVE str_split(_, _)
\* str.split(sep) for a one-character sep: always at least one element
str_split(s, sep) ==
    IF ~str_contains(s, sep) THEN <<s>>
    ELSE LET i == CHOOSE k \in 1..Len(s) :
                      /\ Char(s, k) = sep
                      /\ \A j \in 1..(k - 1) : Char(s, j) # sep
         IN  <<SubSeq(s, 1, i - 1)>> \o str_split(SubSeq(s, i + 1, Len(s)), sep)

RECURSIVE fnmatch(_, _)
\* fnmatch.fnmatch(name, pat) on POSIX (normcase is the identity) for
\* patterns built from literals, "*" and "?"
fnmatch(name, pat) ==
    IF pat = "" THEN name = ""
    ELSE IF Head(pat) = "*"
         THEN fnmatch(name, Tail(pat)) \/ (name # "" /\ fnmatch(Tail(name), pat))
    ELSE IF Head(pat) = "?"
         THEN name # "" /\ fnmatch(Tail(name), Tail(pat))
    ELSE name # "" /\ Head(name) = Head(pat) /\ fnmatch(Tail(name), Tail(pat))

\* every character of s is a decimal digit
AllDigits(s) == \A i \in 1..Len(s) : str_contains(Digits, Char(s, i))

\* re.match(r"ac/l\d+/ct/(internal|external)", topic): re.match anchors the
\* pattern at the start of the string only; what follows the match is free
re_match_ct(topic) ==
    /\ startswith(topic, "ac/l")
    /\ \E n \in 1..(Len(topic) - 4) :
          /\ AllDigits(SubSeq(topic, 5, 4 + n))
          /\ LET rest == SubSeq(topic, 5 + n, Len(topic))
             IN  startswith(rest, "/ct/internal") \/ startswith(rest, "/ct/external")

RECURSIVE int_of_digits(_, _)
\* int(value) for a string of decimal digits, most significant first
int_of_digits(s, acc) ==
    IF s = "" THEN acc
    ELSE int_of_digits(Tail(s),
                       10 * acc + (CHOOSE d \in 0..9 : Char(Digits, d + 1) = Head(s)))

\* whether int(value) succeeds (decimal digits only; otherwise ValueError)
is_int(value) == value # "" /\ AllDigits(value)

\* str(i) for the small logger indexes of the model
str_of_index(i) == Char(Digits, i + 1)

(***************************************************************************)
(* Static methods of DeyeHADiscovery                                       *)
(***************************************************************************)

RELEASE_DATE == "2025-04-17"

component_prefix == "deye_inverter_mqtt"

_ignore_default_topic_pattern == <<"settings/active_power_regulation">>

get_id == "HA Discovery Plugin version " \o RELEASE_DATE

_adapt_unit(unit) == IF unit = "minutes" THEN "min" ELSE unit

_fmt_topic(topic) == str_strip(str_replace(str_lower(topic), "/", "_"), Whitespace)

_get_device_class(topic) ==
    IF \/ endswith(topic, "/voltage")
       \/ endswith(topic, "/charging_voltage")
       \/ endswith(topic, "/discharge_voltage")
    THEN <<"voltage", "sensor">>
    ELSE IF \/ endswith(topic, "/current")
            \/ endswith(topic, "charge_current_limit")
            \/ endswith(topic, "/charging_max_current")
            \/ endswith(topic, "/discharge_max_current")
    THEN <<"current", "sensor">>
    ELSE IF \/ endswith(topic, "_charge")
            \/ endswith(topic, "_discharge")
            \/ endswith(topic, "_energy")
            \/ str_contains(topic, "_energy_")
    THEN <<"energy", "sensor">>
    ELSE IF re_match_ct(topic)
    THEN <<"power", "sensor">>
    ELSE IF endswith(topic, "power")
    THEN <<"power", "sensor">>
    ELSE IF endswith(topic, "/freq")
    THEN <<"frequency", "sensor">>
    ELSE IF \/ endswith(topic, "temperature")
            \/ endswith(topic, "/temp")
            \/ topic = "radiator_temp"
    THEN <<"temperature", "sensor">>
    ELSE IF endswith(topic, "/soc") \/ startswith(topic, "bms/")
    THEN <<"battery", "sensor">>
    ELSE IF topic = "uptime"
    THEN <<"duration", "sensor">>
    ELSE IF topic = "inverter/status"
    THEN <<"enum", "sensor">>
    ELSE IF topic = "ac/ongrid"
    THEN <<"power", "binary_sensor">>
    ELSE <<"", "sensor">>

_ignore_topic(topic, ignore_list) ==
    \E i \in 1..Len(ignore_list) : fnmatch(topic, ignore_list[i])

\* mutant: the energy rule of _get_device_class (substring "_energy_") is
\* used for the state class too
_get_state_class_substring(topic) ==
    IF \/ endswith(topic, "_charge")
       \/ endswith(topic, "_discharge")
       \/ endswith(topic, "_energy")
       \/ str_contains(topic, "_energy_")
       \/ topic = "uptime"
    THEN "total_increasing"
    ELSE "measurement"

_get_state_class(topic) ==
    IF \/ endswith(topic, "_charge")
       \/ endswith(topic, "_discharge")
       \/ endswith(topic, "_energy")
       \/ endswith(topic, "_energy_bought")
       \/ endswith(topic, "_energy_sold")
       \/ topic = "uptime"
    THEN "total_increasing"
    ELSE "measurement"

_get_options(topic) ==
    IF topic = "inverter/status"
    THEN <<"standby", "selfcheck", "normal", "alarm", "fault">>
    ELSE <<>>

_get_payload_on_off(topic) == <<"True", "False">>

(***************************************************************************)
(* Inputs: configuration, environment values, events                       *)
(***************************************************************************)

\* longest batch of events handed to process
MaxBatch == 2

\* how many filler characters may be appended to a composed topic suffix
MaxPad == 1

\* plugin_context.config: DeyePlugin instantiates the processor only for a
\* single-logger configuration (ConfigSingle); the class itself resolves
\* events.logger_index in config.logger_configs (ConfigMulti).  config.logger
\* is the first logger configuration.
ConfigSingle ==
    [logger         |-> [serial_number |-> "ABC123"],
     logger_configs |-> (0 :> [serial_number |-> "ABC123"]),
     mqtt           |-> [topic_prefix |-> "deye"]]

ConfigMulti ==
    [logger         |-> [serial_number |-> "Sn 7/4"],
     logger_configs |-> (0 :> [serial_number |-> "Sn 7/4"]) @@
                        (1 :> [serial_number |-> "XY9"]),
     mqtt           |-> [topic_prefix |-> "deye"]]

Configs == {ConfigSingle, ConfigMulti}

\* values of DEYE_HA_PLUGIN_IGNORE_TOPIC_PATTERNS
EnvIgnorePatterns == {"", "dc/pv?/voltage:up*e", "*"}

\* values of DEYE_HA_PLUGIN_EXPIRE_AFTER ("5m" is not an integer)
EnvExpireAfter == {"", "300", "5m"}

\* values of DEYE_HA_PLUGIN_INVERTER_MANUFACTURER
EnvManufacturer == {"Unknown manufacturer"}

\* values of DEYE_HA_PLUGIN_INVERTER_MODEL
EnvModel == {"\"SUN-M80\""}

\* values of DEYE_HA_PLUGIN_HA_MQTT_PREFIX
EnvPrefix == {"homeassistant"}

Sensor(name, unit, suffix) ==
    [name |-> name, unit |-> unit, mqtt_topic_suffix |-> suffix]

\* a DeyeObservationEvent carrying an Observation of a Sensor
ObservationEvent(name, unit, suffix) ==
    [kind |-> "DeyeObservationEvent",
     observation |-> [sensor |-> Sensor(name, unit, suffix)]]

\* a DeyeEvent of another kind
OtherEvent == [kind |-> "DeyeLoggerStatusEvent"]

\* the events a batch is drawn from
Catalogue ==
    {ObservationEvent("Battery SOC", "%", "battery/soc"),
     ObservationEvent("Uptime", "minutes", "uptime"),
     ObservationEvent("On grid", "", "ac/ongrid"),
     ObservationEvent("Inverter status", "", "inverter/status"),
     ObservationEvent("Active power regulation", "%", "settings/active_power_regulation"),
     ObservationEvent("Nonsense", "", "nonsense/xyz"),
     ObservationEvent("Hidden", "W", ""),
     OtherEvent}

\* all sequences over S of length at most n
SeqsUpTo(S, n) == UNION {[1..k -> S] : k \in 0..n}

\* DeyeEventList: the logger index and the ordered events
EventLists(cfg, S, n) ==
    {[logger_index |-> li, events |-> es] :
        li \in DOMAIN cfg.logger_configs, es \in SeqsUpTo(S, n)}

(***************************************************************************)
(* State                                                                   *)
(***************************************************************************)

VARIABLES
    config,                             \* self._config
    lifecycle,                          \* "constructed", "initialized", "failed"
    ha_discovery_prefix,
    inverter_manufacturer,
    inverter_model,
    expire_after,                       \* <<>> is None, <<n>> is the integer n
    _ignore_user_topic_patterns,
    _use_topic_in_unique_id,
    _active_power_regulation_enabled,
    _logger_index,                      \* -1 is None
    _logger_serial,
    _device_name,
    pc,                                 \* per process call: where it stands
    events,                             \* per process call: its DeyeEventList
    idx,                                \* per process call: loop position
    published,                          \* per process call: its publish calls
    interrupted,                        \* per process call: another call began meanwhile
    arg_topic,                          \* argument of a direct method call
    arg_name,                           \* argument of a direct method call
    ret                                 \* result of the last direct method call

vars ==
    <<config, lifecycle, ha_discovery_prefix, inverter_manufacturer, inverter_model,
      expire_after, _ignore_user_topic_patterns, _use_topic_in_unique_id,
      _active_power_regulation_enabled, _logger_index, _logger_serial, _device_name,
      pc, events, idx, published, interrupted, arg_topic, arg_name, ret>>

instance_vars ==
    <<config, lifecycle, ha_discovery_prefix, inverter_manufacturer, inverter_model,
      expire_after, _ignore_user_topic_patterns, _use_topic_in_unique_id,
      _active_power_regulation_enabled>>

batch_vars == <<_logger_index, _logger_serial, _device_name>>

call_vars == <<pc, events, idx, published, interrupted>>

harness_vars == <<arg_topic, arg_name, ret>>

\* an attribute that has no value yet
None == "None"

NoEvents == [logger_index |-> 0, events |-> <<>>]

NoRet == [fn |-> "", val |-> ""]

\* __init__ and the class attributes, for the process calls in Calls
Constructed(cfgs, Calls) ==
    /\ config \in cfgs
    /\ lifecycle = "constructed"
    /\ ha_discovery_prefix = None
    /\ inverter_manufacturer = None
    /\ inverter_model = None
    /\ expire_after = <<>>
    /\ _ignore_user_topic_patterns = <<>>
    /\ _use_topic_in_unique_id = FALSE
    /\ _active_power_regulation_enabled \in BOOLEAN
    /\ _logger_index = -1
    /\ _logger_serial = ""
    /\ _device_name = None
    /\ pc = [c \in Calls |-> "idle"]
    /\ events = [c \in Calls |-> NoEvents]
    /\ idx = [c \in Calls |-> 0]
    /\ published = [c \in Calls |-> <<>>]
    /\ interrupted = [c \in Calls |-> FALSE]

(***************************************************************************)
(* initialize                                                              *)
(***************************************************************************)

\* mutant: a user pattern list replaces the built-in patterns
ignore_patterns_user_only(value) ==
    IF value # "" THEN str_split(value, ":") ELSE _ignore_default_topic_pattern

\* the tuple initialize() leaves in _ignore_user_topic_patterns
ignore_patterns_of(value) ==
    IF value # ""
    THEN str_split(value, ":") \o _ignore_default_topic_pattern
    ELSE _ignore_default_topic_pattern

\* initialize() with the given environment values; int() of a value that is
\* not an integer raises after the assignments before it
Initialize(prefix, manufacturer, model, ignore_value, expire_value, use_topic) ==
    /\ lifecycle = "constructed"
    /\ ha_discovery_prefix' = prefix
    /\ inverter_manufacturer' = str_strip(manufacturer, "\"")
    /\ inverter_model' = str_strip(model, "\"")
    /\ _ignore_user_topic_patterns' = ignore_patterns_of(ignore_value)
    /\ IF expire_value # "" /\ ~is_int(expire_value)
       THEN /\ lifecycle' = "failed"
            /\ UNCHANGED <<expire_after, _use_topic_in_unique_id>>
       ELSE /\ lifecycle' = "initialized"
            /\ expire_after' = IF expire_value # ""
                               THEN <<int_of_digits(expire_value, 0)>>
                               ELSE expire_after
            /\ _use_topic_in_unique_id' = use_topic
    /\ UNCHANGED <<config, _active_power_regulation_enabled>>
    /\ UNCHANGED <<batch_vars, call_vars, harness_vars>>

(***************************************************************************)
(* Descriptors                                                             *)
(***************************************************************************)

\* mutant: one prefix literal for both identifier strategies
_get_unique_id_one_prefix(sensor_name, topic_name) ==
    LET component == IF _use_topic_in_unique_id /\ topic_name # ""
                     THEN topic_name ELSE sensor_name
        lowered == str_lower(component_prefix \o "_" \o config.logger.serial_number
                             \o "_" \o component)
    IN  str_replace(str_replace(lowered, " ", "_"), "/", "_")

\* functools.cache memoizes per (sensor_name, topic_name); the method is
\* called after initialize() only, when the attributes it reads are fixed
_get_unique_id(sensor_name, topic_name) ==
    LET prefix == IF _use_topic_in_unique_id THEN component_prefix
                  ELSE "deye_mqtt_inverter"
        component == IF _use_topic_in_unique_id /\ topic_name # ""
                     THEN topic_name ELSE sensor_name
        lowered == str_lower(prefix \o "_" \o config.logger.serial_number
                             \o "_" \o component)
    IN  str_replace(str_replace(lowered, " ", "_"), "/", "_")

\* DeyeMqttClient.build_topic_name: the transport's naming convention
build_topic_name(logger_index, topic_suffix) ==
    IF logger_index > 0
    THEN config.mqtt.topic_prefix \o "/" \o str_of_index(logger_index)
         \o "/" \o topic_suffix
    ELSE config.mqtt.topic_prefix \o "/" \o topic_suffix

\* f"{self.component_prefix}_{self._config.logger.serial_number}"
node_id == component_prefix \o "_" \o config.logger.serial_number

\* mutant: the device is identified with the prefix literal of the unique
\* ids, not with the node id of the discovery channel
device_unique_id_prefix(sw_version) ==
    [identifiers   |-> <<"deye_mqtt_inverter_" \o config.logger.serial_number>>,
     name          |-> _device_name,
     manufacturer  |-> inverter_manufacturer,
     model         |-> inverter_model \o " SN:" \o _logger_serial,
     serial_number |-> _logger_serial,
     sw_version    |-> sw_version]

\* the "device" dictionary of every descriptor
device(sw_version) ==
    [identifiers   |-> <<node_id>>,
     name          |-> _device_name,
     manufacturer  |-> inverter_manufacturer,
     model         |-> inverter_model \o " SN:" \o _logger_serial,
     serial_number |-> _logger_serial,
     sw_version    |-> sw_version]

\* if self.expire_after is not None: discover_config["expire_after"] = ...
expiry_fields ==
    IF expire_after # <<>> THEN [expire_after |-> expire_after[1]] ELSE <<>>

\* mutant: the state class and the unit are attached to an enum sensor too
shape_fields_enum_measured(sensor) ==
    LET device_class == _get_device_class(sensor.mqtt_topic_suffix)[1]
        platform == _get_device_class(sensor.mqtt_topic_suffix)[2]
    IN  IF platform = "binary_sensor"
        THEN [payload_on |-> _get_payload_on_off(sensor.mqtt_topic_suffix)[1],
              payload_off |-> _get_payload_on_off(sensor.mqtt_topic_suffix)[2]]
        ELSE (IF device_class = "enum"
              THEN [options |-> _get_options(sensor.mqtt_topic_suffix)]
              ELSE <<>>)
             @@ [state_class |-> _get_state_class(sensor.mqtt_topic_suffix),
                 unit_of_measurement |-> _adapt_unit(sensor.unit)]

\* the fields publish_sensor_information adds by platform and device class
shape_fields(sensor) ==
    LET device_class == _get_device_class(sensor.mqtt_topic_suffix)[1]
        platform == _get_device_class(sensor.mqtt_topic_suffix)[2]
    IN  IF platform = "binary_sensor"
        THEN [payload_on |-> _get_payload_on_off(sensor.mqtt_topic_suffix)[1],
              payload_off |-> _get_payload_on_off(sensor.mqtt_topic_suffix)[2]]
        ELSE IF device_class = "enum"
        THEN [options |-> _get_options(sensor.mqtt_topic_suffix)]
        ELSE [state_class |-> _get_state_class(sensor.mqtt_topic_suffix),
              unit_of_measurement |-> _adapt_unit(sensor.unit)]

\* the publish call of publish_sensor_information for a classified topic
sensor_message(topic, sensor) ==
    LET mqtt_topic_suffix == sensor.mqtt_topic_suffix
        device_class == _get_device_class(mqtt_topic_suffix)[1]
        platform == _get_device_class(mqtt_topic_suffix)[2]
        object_id == _fmt_topic(mqtt_topic_suffix)
        discovery_topic == ha_discovery_prefix \o "/" \o platform \o "/" \o node_id
                           \o "/" \o object_id \o "/config"
        base == [name |-> sensor.name,
                 unique_id |-> _get_unique_id(sensor.name, mqtt_topic_suffix),
                 force_update |-> TRUE,
                 device_class |-> device_class,
                 availability_topic |-> config.mqtt.topic_prefix \o "/status",
                 state_topic |-> topic,
                 device |-> device(str_replace(component_prefix, "_", "-")
                                   \o " with " \o get_id)]
    IN  [topic |-> discovery_topic,
         payload |-> base @@ expiry_fields @@ shape_fields(sensor)]

\* publish_sensor_information: the publish calls it makes (none when the
\* topic has no device class)
publish_sensor_information(topic, observation) ==
    IF _get_device_class(observation.sensor.mqtt_topic_suffix)[1] = ""
    THEN <<>>
    ELSE <<sensor_message(topic, observation.sensor)>>

\* publish_active_power_regulation: its publish call
publish_active_power_regulation ==
    [topic |-> ha_discovery_prefix \o "/number/" \o node_id
               \o "/active_power_regulation/config",
     payload |->
        [name |-> "Active Power Regulation",
         unique_id |-> _get_unique_id("", "settings/active_power_regulation"),
         unit_of_measurement |-> "%",
         availability_topic |-> config.mqtt.topic_prefix \o "/status",
         min |-> 0,
         max |-> 120,
         mode |-> "slider",
         step |-> 1,
         command_topic |-> config.mqtt.topic_prefix
                           \o "/settings/active_power_regulation/command",
         state_topic |-> config.mqtt.topic_prefix
                         \o "/settings/active_power_regulation",
         device |-> device("deye-inverter-mqtt with " \o get_id)]]

\* the list publish_status_information iterates over
status_list ==
    <<[name |-> "MQTT bridge", mqtt_topic |-> "application_status",
       device_class |-> "running", state_topic |-> "status"],
      [name |-> "Inverter logger", mqtt_topic |-> "logger_status",
       device_class |-> "connectivity", state_topic |-> "logger_status"]>>

\* publish_status_information: the publish call of one iteration
status_message(s) ==
    [topic |-> ha_discovery_prefix \o "/binary_sensor/" \o node_id \o "/"
               \o s.mqtt_topic \o "/config",
     payload |->
        [name |-> s.name,
         device_class |-> s.device_class,
         entity_category |-> "diagnostic",
         force_update |-> TRUE,
         unique_id |-> _get_unique_id("", s.mqtt_topic),
         state_topic |-> config.mqtt.topic_prefix \o "/" \o s.state_topic,
         payload_on |-> "online",
         payload_off |-> "offline",
         device |-> device("deye-inverter-mqtt with " \o get_id)]]

(***************************************************************************)
(* process: one step per publish                                           *)
(***************************************************************************)

\* a call that has begun and not returned
Active(c) == pc[c] \in {"status", "control", "events"}

\* mutant: the control descriptor is published whatever the feature flag
after_status_unconditional(c) == "control"

\* where process stands once the status descriptors are out
after_status(c) ==
    IF _active_power_regulation_enabled THEN "control"
    ELSE IF Len(events[c].events) = 0 THEN "done" ELSE "events"

\* where process stands once the control descriptor is out
after_control(c) == IF Len(events[c].events) = 0 THEN "done" ELSE "events"

\* mutant: the serial number is taken from config.logger, not from the
\* logger configuration of the batch
Begin_primary_serial(c, batch) ==
    /\ lifecycle = "initialized"
    /\ pc[c] = "idle"
    /\ _logger_index' = batch.logger_index
    /\ _logger_serial' = config.logger.serial_number
    /\ _device_name' = inverter_manufacturer \o " Inverter MQTT"
    /\ pc' = [pc EXCEPT ![c] = "status"]
    /\ events' = [events EXCEPT ![c] = batch]
    /\ idx' = [idx EXCEPT ![c] = 1]
    /\ UNCHANGED published
    /\ interrupted' = [d \in DOMAIN pc |->
                          IF d = c THEN FALSE ELSE interrupted[d] \/ Active(d)]
    /\ UNCHANGED <<instance_vars, harness_vars>>

\* process(events), up to the call of publish_status_information: the
\* logger attributes of the instance are assigned from the batch
Begin(c, batch) ==
    /\ lifecycle = "initialized"
    /\ pc[c] = "idle"
    /\ _logger_index' = batch.logger_index
    /\ _logger_serial' = config.logger_configs[batch.logger_index].serial_number
    /\ _device_name' = inverter_manufacturer \o " Inverter MQTT"
    /\ pc' = [pc EXCEPT ![c] = "status"]
    /\ events' = [events EXCEPT ![c] = batch]
    /\ idx' = [idx EXCEPT ![c] = 1]
    /\ UNCHANGED published
    /\ interrupted' = [d \in DOMAIN pc |->
                          IF d = c THEN FALSE ELSE interrupted[d] \/ Active(d)]
    /\ UNCHANGED <<instance_vars, harness_vars>>

\* one iteration of the loop of publish_status_information
PublishStatus(c) ==
    /\ pc[c] = "status"
    /\ published' = [published EXCEPT
                        ![c] = Append(@, status_message(status_list[idx[c]]))]
    /\ IF idx[c] < Len(status_list)
       THEN /\ idx' = [idx EXCEPT ![c] = @ + 1]
            /\ UNCHANGED pc
       ELSE /\ idx' = [idx EXCEPT ![c] = 1]
            /\ pc' = [pc EXCEPT ![c] = after_status(c)]
    /\ UNCHANGED <<instance_vars, batch_vars, harness_vars, events, interrupted>>

\* if self._active_power_regulation_enabled: publish_active_power_regulation()
PublishControl(c) ==
    /\ pc[c] = "control"
    /\ published' = [published EXCEPT
                        ![c] = Append(@, publish_active_power_regulation)]
    /\ pc' = [pc EXCEPT ![c] = after_control(c)]
    /\ UNCHANGED <<instance_vars, batch_vars, harness_vars, events, idx, interrupted>>

\* the publish calls of one iteration of the loop over the events
event_messages(event) ==
    IF event.kind # "DeyeObservationEvent" THEN <<>>
    ELSE IF event.observation.sensor.mqtt_topic_suffix = "" THEN <<>>
    ELSE IF _ignore_topic(event.observation.sensor.mqtt_topic_suffix,
                          _ignore_user_topic_patterns) THEN <<>>
    ELSE publish_sensor_information(
             build_topic_name(_logger_index,
                              event.observation.sensor.mqtt_topic_suffix),
             event.observation)

\* mutant: an event without a device class ends the loop over the events
ProcessEvent_abort(c) ==
    /\ pc[c] = "events"
    /\ published' = [published EXCEPT
                        ![c] = @ \o event_messages(events[c].events[idx[c]])]
    /\ idx' = [idx EXCEPT ![c] = @ + 1]
    /\ pc' = [pc EXCEPT
                 ![c] = IF \/ idx[c] = Len(events[c].events)
                           \/ /\ events[c].events[idx[c]].kind = "DeyeObservationEvent"
                              /\ _get_device_class(events[c].events[idx[c]]
                                     .observation.sensor.mqtt_topic_suffix)[1] = ""
                        THEN "done" ELSE "events"]
    /\ UNCHANGED <<instance_vars, batch_vars, harness_vars, events, interrupted>>

\* one iteration of the loop over the events of the batch
ProcessEvent(c) ==
    /\ pc[c] = "events"
    /\ published' = [published EXCEPT
                        ![c] = @ \o event_messages(events[c].events[idx[c]])]
    /\ idx' = [idx EXCEPT ![c] = @ + 1]
    /\ pc' = [pc EXCEPT
                 ![c] = IF idx[c] = Len(events[c].events) THEN "done" ELSE "events"]
    /\ UNCHANGED <<instance_vars, batch_vars, harness_vars, events, interrupted>>

\* process returns to its caller, which may call it again
Return(c) ==
    /\ pc[c] = "done"
    /\ pc' = [pc EXCEPT ![c] = "idle"]
    /\ events' = [events EXCEPT ![c] = NoEvents]
    /\ idx' = [idx EXCEPT ![c] = 0]
    /\ published' = [published EXCEPT ![c] = <<>>]
    /\ interrupted' = [interrupted EXCEPT ![c] = FALSE]
    /\ UNCHANGED <<instance_vars, batch_vars, harness_vars>>

(***************************************************************************)
(* Specifications                                                          *)
(***************************************************************************)

\* the state after construction, one process call at a time
Init ==
    /\ Constructed({ConfigSingle}, {"p"})
    /\ arg_topic = ""
    /\ arg_name = ""
    /\ ret = NoRet

\* initialize() with any of the environment values
InitializeAny ==
    \E prefix \in EnvPrefix, manufacturer \in EnvManufacturer, model \in EnvModel,
       ignore_value \in EnvIgnorePatterns, expire_value \in EnvExpireAfter,
       use_topic \in BOOLEAN :
        Initialize(prefix, manufacturer, model, ignore_value, expire_value, use_topic)

\* process() is called with any batch of the logger sources of the configuration
BeginAny ==
    \E c \in DOMAIN pc :
        /\ pc[c] = "idle"
        /\ \E batch \in EventLists(config, Catalogue, MaxBatch) : Begin(c, batch)

Next ==
    \/ InitializeAny
    \/ BeginAny
    \/ \E c \in DOMAIN pc : PublishStatus(c)
    \/ \E c \in DOMAIN pc : PublishControl(c)
    \/ \E c \in DOMAIN pc : ProcessEvent(c)
    \/ \E c \in DOMAIN pc : Return(c)

Spec == Init /\ [][Next]_vars

(***************************************************************************)
(* Two process calls on one instance, interleaved between publish calls    *)
(***************************************************************************)

\* longest batch of an interleaved call
MaxBatchConc == 1

\* the events an interleaved batch is drawn from
CatalogueConc ==
    {ObservationEvent("Battery SOC", "%", "battery/soc"), OtherEvent}

InitConc ==
    /\ Constructed({ConfigMulti}, {"a", "b"})
    /\ arg_topic = ""
    /\ arg_name = ""
    /\ ret = NoRet

\* initialize() with the default environment
InitializeDefault ==
    \E prefix \in EnvPrefix, manufacturer \in EnvManufacturer, model \in EnvModel :
        Initialize(prefix, manufacturer, model, "", "", FALSE)

\* process() is called while another call may be under way
BeginConc ==
    \E c \in DOMAIN pc :
        /\ pc[c] = "idle"
        /\ \E batch \in EventLists(config, CatalogueConc, MaxBatchConc) :
              Begin(c, batch)

NextConc ==
    \/ InitializeDefault
    \/ BeginConc
    \/ \E c \in DOMAIN pc : PublishStatus(c)
    \/ \E c \in DOMAIN pc : PublishControl(c)
    \/ \E c \in DOMAIN pc : ProcessEvent(c)
    \/ \E c \in DOMAIN pc : Return(c)

SpecConc == InitConc /\ [][NextConc]_vars

(***************************************************************************)
(* Direct calls of the classification and identifier methods               *)
(***************************************************************************)

\* how a topic suffix may begin
TopicHeads ==
    {"", "x", "ac/l1", "AC/L1", "dc/pv1", "bms/1", "battery", "total", "day_energy_",
     "ac/l12/ct/internal", "ac/l1/ct/external", "ac/l/ct/internal",
     "xac/l1/ct/internal"}

\* how a topic suffix may end
TopicTails ==
    {"", "/voltage", "/charging_voltage", "/discharge_voltage", "voltage",
     "/current", "/charge_current_limit", "/charging_max_current",
     "/discharge_max_current", "_charge", "_discharge", "_energy",
     "_energy_bought", "_energy_sold", "power", "/freq", "temperature", "/temp",
     "radiator_temp", "/soc", "uptime", "inverter/status", "ac/ongrid",
     "nonsense/xyz", "settings/active_power_regulation"}

RECURSIVE Filler(_)
\* k filler characters
Filler(k) == IF k = 0 THEN "" ELSE "x" \o Filler(k - 1)

\* the topic suffixes the methods are called with
Topics ==
    {h \o t \o Filler(k) : h \in TopicHeads, t \in TopicTails, k \in 0..MaxPad}

\* the sensor names the methods are called with
SensorNames == {"", "Battery SOC", "PV1 Voltage"}

InitCalls ==
    /\ Constructed(Configs, {"p"})
    /\ arg_topic \in Topics
    /\ arg_name \in SensorNames
    /\ ret = NoRet

\* initialize() with the default environment and either identifier strategy
InitializeStrategy ==
    \E prefix \in EnvPrefix, manufacturer \in EnvManufacturer, model \in EnvModel,
       use_topic \in BOOLEAN :
        Initialize(prefix, manufacturer, model, "", "", use_topic)

Call_get_device_class ==
    /\ ret' = [fn |-> "_get_device_class", val |-> _get_device_class(arg_topic)]
    /\ UNCHANGED <<instance_vars, batch_vars, call_vars, arg_topic, arg_name>>

Call_get_state_class ==
    /\ ret' = [fn |-> "_get_state_class", val |-> _get_state_class(arg_topic)]
    /\ UNCHANGED <<instance_vars, batch_vars, call_vars, arg_topic, arg_name>>

\* assert sensor_name or topic_name
Call_get_unique_id ==
    /\ lifecycle = "initialized"
    /\ ret' = IF arg_name = "" /\ arg_topic = ""
              THEN [fn |-> "_get_unique_id", val |-> "AssertionError"]
              ELSE [fn |-> "_get_unique_id",
                    val |-> _get_unique_id(arg_name, arg_topic)]
    /\ UNCHANGED <<instance_vars, batch_vars, call_vars, arg_topic, arg_name>>

NextCalls ==
    \/ InitializeStrategy
    \/ Call_get_device_class
    \/ Call_get_state_class
    \/ Call_get_unique_id

SpecCalls == InitCalls /\ [][NextCalls]_vars

(***************************************************************************)
(* Vocabulary of the properties                                            *)
(***************************************************************************)

\* the discovery channel {prefix}/{platform}/{nodeId}/{objectId}/config
Channel(platform, object_id) ==
    ha_discovery_prefix \o "/" \o platform \o "/" \o component_prefix \o "_"
    \o config.logger.serial_number \o "/" \o object_id \o "/config"

IsStatusDescriptor(m) == "entity_category" \in DOMAIN m.payload

IsControlDescriptor(m) == "command_topic" \in DOMAIN m.payload

IsSensorDescriptor(m) == ~IsStatusDescriptor(m) /\ ~IsControlDescriptor(m)

\* how many descriptors precede the sensor descriptors of a call
PreludeLen == IF _active_power_regulation_enabled THEN 3 ELSE 2

\* the sensor descriptors a call has published so far
SensorPart(c) ==
    IF Len(published[c]) <= PreludeLen THEN <<>>
    ELSE SubSeq(published[c], PreludeLen + 1, Len(published[c]))

\* the events of its batch a call has gone through so far
Processed(c) ==
    IF pc[c] = "done" THEN events[c].events
    ELSE IF pc[c] = "events" THEN SubSeq(events[c].events, 1, idx[c] - 1)
    ELSE <<>>

\* an observation event with a classifiable topic suffix that no active
\* ignore pattern matches
Eligible(event) ==
    /\ event.kind = "DeyeObservationEvent"
    /\ event.observation.sensor.mqtt_topic_suffix # ""
    /\ \A k \in 1..Len(_ignore_user_topic_patterns) :
          ~fnmatch(event.observation.sensor.mqtt_topic_suffix,
                   _ignore_user_topic_patterns[k])
    /\ _get_device_class(event.observation.sensor.mqtt_topic_suffix)[1] # ""

\* the sensors whose descriptors a call must have published so far, in order
ExpectedSensors(c) ==
    LET es == SelectSeq(Processed(c), Eligible)
    IN  [k \in 1..Len(es) |-> es[k].observation.sensor]

RegulationSuffix == "settings/active_power_regulation"

(***************************************************************************)
(* C1: every process call publishes first the application_status          *)
(* descriptor, then the logger_status descriptor, both on the              *)
(* binary_sensor channel, then exactly one number/active_power_regulation  *)
(* descriptor if and only if the control feature is enabled, and sensor    *)
(* descriptors only after these; with the feature disabled no control      *)
(* descriptor is published, whatever the batch.                            *)
(***************************************************************************)
C1_PublishOrder ==
    \A c \in DOMAIN pc :
        LET p == published[c]
            n == Len(p)
        IN  /\ pc[c] \in {"control", "events", "done"} => n >= 2
            /\ n >= 1 => /\ IsStatusDescriptor(p[1])
                         /\ p[1].topic = Channel("binary_sensor", "application_status")
            /\ n >= 2 => /\ IsStatusDescriptor(p[2])
                         /\ p[2].topic = Channel("binary_sensor", "logger_status")
            /\ _active_power_regulation_enabled =>
                  /\ pc[c] \in {"events", "done"} => n >= 3
                  /\ n >= 3 => /\ IsControlDescriptor(p[3])
                               /\ p[3].topic = Channel("number", "active_power_regulation")
            /\ \A k \in 1..n :
                  /\ IsStatusDescriptor(p[k]) => k <= 2
                  /\ IsControlDescriptor(p[k]) =>
                        _active_power_regulation_enabled /\ k = 3
                  /\ IsSensorDescriptor(p[k]) => k > PreludeLen

C1_Witness ==
    \E c \in DOMAIN pc :
        /\ pc[c] = "done"
        /\ _active_power_regulation_enabled
        /\ Len(published[c]) >= 4
        /\ IsSensorDescriptor(published[c][4])

(***************************************************************************)
(* C2: the sensor descriptors of a call are exactly, in event order, one   *)
(* per observation event with a non-empty topic suffix that no active      *)
(* ignore pattern matches and that classifies to a device class; every     *)
(* other event publishes nothing and the batch goes on after it.           *)
(***************************************************************************)
C2_SensorDescriptors ==
    \A c \in DOMAIN pc :
        pc[c] \in {"events", "done"} =>
            LET got == SensorPart(c)
                want == ExpectedSensors(c)
            IN  /\ Len(got) = Len(want)
                /\ \A k \in 1..Len(want) :
                      /\ got[k].payload.name = want[k].name
                      /\ got[k].payload.state_topic =
                            config.mqtt.topic_prefix \o "/" \o want[k].mqtt_topic_suffix
                      /\ got[k].topic =
                            Channel(_get_device_class(want[k].mqtt_topic_suffix)[2],
                                    _fmt_topic(want[k].mqtt_topic_suffix))

C2_Witness ==
    \E c \in DOMAIN pc :
        /\ pc[c] = "done"
        /\ Len(events[c].events) = 2
        /\ events[c].events[1].kind = "DeyeObservationEvent"
        /\ events[c].events[1].observation.sensor.mqtt_topic_suffix = "nonsense/xyz"
        /\ Len(SensorPart(c)) = 1
        /\ SensorPart(c)[1].payload.name = "Battery SOC"

(***************************************************************************)
(* C3: after initialize(), whatever the user's ignore patterns, the active *)
(* patterns contain "settings/active_power_regulation", and no sensor      *)
(* descriptor is ever published for an observation with that suffix.       *)
(***************************************************************************)
C3_BuiltinIgnored ==
    lifecycle # "constructed" =>
        /\ \E k \in 1..Len(_ignore_user_topic_patterns) :
              _ignore_user_topic_patterns[k] = RegulationSuffix
        /\ _ignore_topic(RegulationSuffix, _ignore_user_topic_patterns)
        /\ \A c \in DOMAIN pc :
              \A k \in 1..Len(published[c]) :
                  IsSensorDescriptor(published[c][k]) =>
                      /\ published[c][k].payload.name # "Active power regulation"
                      /\ ~endswith(published[c][k].topic,
                                   "/settings_active_power_regulation/config")

C3_Witness ==
    /\ lifecycle = "initialized"
    /\ Len(_ignore_user_topic_patterns) = 3
    /\ \E c \in DOMAIN pc :
          /\ pc[c] = "done"
          /\ \E k \in 1..Len(events[c].events) :
                /\ events[c].events[k].kind = "DeyeObservationEvent"
                /\ events[c].events[k].observation.sensor.mqtt_topic_suffix
                      = RegulationSuffix
          /\ Len(SensorPart(c)) = 1

\* the identity pairs process passes to _get_unique_id, in publish order
IdentityPairs(c) ==
    LET prelude == IF _active_power_regulation_enabled
                   THEN <<<<"", "application_status">>, <<"", "logger_status">>,
                          <<"", RegulationSuffix>>>>
                   ELSE <<<<"", "application_status">>, <<"", "logger_status">>>>
        sensors == ExpectedSensors(c)
    IN  prelude \o [k \in 1..Len(sensors) |->
                       <<sensors[k].name, sensors[k].mqtt_topic_suffix>>]

(***************************************************************************)
(* C4: within the publications of one call, descriptors that come from     *)
(* different (sensorName, topicSuffix) identity pairs carry different      *)
(* unique_id values; the pairs include ("", "application_status"),         *)
(* ("", "logger_status") and ("", "settings/active_power_regulation").     *)
(***************************************************************************)
C4_UniqueIdsDistinct ==
    \A c \in DOMAIN pc :
        \A j, k \in 1..Len(published[c]) :
            IdentityPairs(c)[j] # IdentityPairs(c)[k] =>
                published[c][j].payload.unique_id # published[c][k].payload.unique_id

\* the fields that depend on the platform and the device class
ShapeFields == {"payload_on", "payload_off", "options", "state_class",
                "unit_of_measurement"}

(***************************************************************************)
(* C9: a sensor descriptor has exactly one of three field shapes: on the   *)
(* binary_sensor platform payload_on/payload_off ("True"/"False"); for the *)
(* device class enum, options; otherwise state_class and the adapted unit; *)
(* never fields of another shape.  expire_after is present if and only if  *)
(* an expire-after value was configured.                                   *)
(***************************************************************************)
C9_DescriptorShape ==
    \A c \in DOMAIN pc :
        \A k \in 1..Len(SensorPart(c)) :
            LET m == SensorPart(c)[k]
                d == m.payload
                fields == DOMAIN d \cap ShapeFields
            IN  /\ IF startswith(m.topic, ha_discovery_prefix \o "/binary_sensor/")
                   THEN /\ fields = {"payload_on", "payload_off"}
                        /\ d.payload_on = "True"
                        /\ d.payload_off = "False"
                   ELSE IF d.device_class = "enum"
                   THEN /\ fields = {"options"}
                        /\ startswith(m.topic, ha_discovery_prefix \o "/sensor/")
                   ELSE /\ fields = {"state_class", "unit_of_measurement"}
                        /\ d.state_class \in {"measurement", "total_increasing"}
                        /\ k <= Len(ExpectedSensors(c))
                        /\ d.unit_of_measurement =
                              (IF ExpectedSensors(c)[k].unit = "minutes" THEN "min"
                               ELSE ExpectedSensors(c)[k].unit)
                /\ ("expire_after" \in DOMAIN d) <=> (expire_after # <<>>)

C9_Witness ==
    \E c \in DOMAIN pc :
        /\ expire_after = <<300>>
        /\ Len(SensorPart(c)) = 2
        /\ "options" \in DOMAIN SensorPart(c)[1].payload
        /\ "state_class" \in DOMAIN SensorPart(c)[2].payload
        /\ SensorPart(c)[2].payload.unit_of_measurement = "min"
        /\ SensorPart(c)[2].payload.expire_after = 300

\* the node id segment of a discovery channel
\* {prefix}/{platform}/{nodeId}/{objectId}/config
NodeIdSegment(topic) ==
    str_split(SubSeq(topic, Len(ha_discovery_prefix) + 2, Len(topic)), "/")[2]

(***************************************************************************)
(* C11: all descriptors published during one process call (status,         *)
(* control and sensor descriptors) carry the same device record            *)
(* (identifiers, name, manufacturer, model, serial_number, sw_version),    *)
(* and its identifiers field is a one-element list whose element is the    *)
(* node id segment of the discovery channel the descriptor is published    *)
(* on.                                                                     *)
(***************************************************************************)
C11_DeviceRecord ==
    \A c \in DOMAIN pc :
        \A k \in 1..Len(published[c]) :
            LET m == published[c][k]
                d == m.payload.device
            IN  /\ DOMAIN d = {"identifiers", "name", "manufacturer", "model",
                               "serial_number", "sw_version"}
                /\ d = published[c][1].payload.device
                /\ Len(d.identifiers) = 1
                /\ startswith(m.topic, ha_discovery_prefix \o "/")
                /\ endswith(m.topic, "/config")
                /\ d.identifiers[1] = NodeIdSegment(m.topic)

C11_Witness ==
    \E c \in DOMAIN pc :
        /\ pc[c] = "done"
        /\ Len(published[c]) = 5
        /\ IsStatusDescriptor(published[c][2])
        /\ IsControlDescriptor(published[c][3])
        /\ startswith(published[c][4].topic, ha_discovery_prefix \o "/binary_sensor/")
        /\ startswith(published[c][5].topic, ha_discovery_prefix \o "/sensor/")
        /\ published[c][5].payload.device.identifiers = <<"deye_inverter_mqtt_ABC123">>

\* descriptor m of call c names the logger of the batch of c
OwnLogger(c, m) ==
    LET li == events[c].logger_index
        serial == config.logger_configs[li].serial_number
    IN  /\ m.payload.device.serial_number = serial
        /\ m.payload.device.model = inverter_model \o " SN:" \o serial
        /\ IsSensorDescriptor(m) =>
              \E k \in 1..Len(events[c].events) :
                  /\ events[c].events[k].kind = "DeyeObservationEvent"
                  /\ m.payload.state_topic =
                        (IF li > 0
                         THEN config.mqtt.topic_prefix \o "/" \o str_of_index(li) \o "/"
                              \o events[c].events[k].observation.sensor.mqtt_topic_suffix
                         ELSE config.mqtt.topic_prefix \o "/"
                              \o events[c].events[k].observation.sensor.mqtt_topic_suffix)

CtExact(topic) ==
    /\ startswith(topic, "ac/l")
    /\ \E n \in 1..(Len(topic) - 4) :
          /\ AllDigits(SubSeq(topic, 5, 4 + n))
          /\ SubSeq(topic, 5 + n, Len(topic)) \in {"/ct/internal", "/ct/external"}

\* rule k of the list matches the topic suffix
RuleMatches(k, topic) ==
    CASE k = 1 -> \/ endswith(topic, "/voltage")
                  \/ endswith(topic, "/charging_voltage")
                  \/ endswith(topic, "/discharge_voltage")
      [] k = 2 -> \/ endswith(topic, "/current")
                  \/ endswith(topic, "charge_current_limit")
                  \/ endswith(topic, "/charging_max_current")
                  \/ endswith(topic, "/discharge_max_current")
      [] k = 3 -> \/ endswith(topic, "_charge")
                  \/ endswith(topic, "_discharge")
                  \/ endswith(topic, "_energy")
                  \/ str_contains(topic, "_energy_")
      [] k = 4 -> CtExact(topic)
      [] k = 5 -> endswith(topic, "power")
      [] k = 6 -> endswith(topic, "/freq")
      [] k = 7 -> \/ endswith(topic, "temperature")
                  \/ endswith(topic, "/temp")
                  \/ topic = "radiator_temp"
      [] k = 8 -> endswith(topic, "/soc") \/ startswith(topic, "bms/")
      [] k = 9 -> topic = "uptime"
      [] k = 10 -> topic = "inverter/status"
      [] k = 11 -> topic = "ac/ongrid"

\* the device class and platform of rule k
RuleResult ==
    <<<<"voltage", "sensor">>, <<"current", "sensor">>, <<"energy", "sensor">>,
      <<"power", "sensor">>, <<"power", "sensor">>, <<"frequency", "sensor">>,
      <<"temperature", "sensor">>, <<"battery", "sensor">>, <<"duration", "sensor">>,
      <<"enum", "sensor">>, <<"power", "binary_sensor">>>>

\* the result of the lowest-numbered matching rule among the rules in ks
FirstMatch(ks, topic) ==
    LET matching == {k \in ks : RuleMatches(k, topic)}
    IN  IF matching = {} THEN <<"", "sensor">>
        ELSE RuleResult[CHOOSE k \in matching : \A j \in matching : k <= j]

(***************************************************************************)
(* C5: _get_device_class returns the device class and platform of the      *)
(* lowest-numbered rule of the list 1..11 that matches the topic suffix,   *)
(* ("", "sensor") when no rule matches, and the platform binary_sensor if  *)
(* and only if the suffix is exactly "ac/ongrid".                          *)
(***************************************************************************)
C5_FirstMatchWins ==
    ret.fn = "_get_device_class" =>
        /\ ret.val = FirstMatch(1..11, arg_topic)
        /\ (ret.val[2] = "binary_sensor") <=> (arg_topic = "ac/ongrid")
        /\ arg_topic = "ac/ongrid" => ret.val = <<"power", "binary_sensor">>

\* with rule 4 read as the source has it (a match of the beginning of the
\* suffix), the cascade of the source is the first-match cascade of the list
CascadeWithPrefixRule ==
    ret.fn = "_get_device_class" =>
        LET matching == {k \in 1..11 : IF k = 4 THEN re_match_ct(arg_topic)
                                       ELSE RuleMatches(k, arg_topic)}
        IN  ret.val = IF matching = {} THEN <<"", "sensor">>
                      ELSE RuleResult[CHOOSE k \in matching :
                                         \A j \in matching : k <= j]

(***************************************************************************)
(* C6: a suffix that only begins with ac/l<digits>/ct/(internal|external)  *)
(* and goes on, and that matches none of the rules 1-3, is not classified  *)
(* by rule 4: its result is the one of the rules 5-12.                     *)
(***************************************************************************)
C6_CtRuleExact ==
    ( /\ ret.fn = "_get_device_class"
      /\ re_match_ct(arg_topic)
      /\ ~CtExact(arg_topic)
      /\ \A k \in 1..3 : ~RuleMatches(k, arg_topic) )
    => ret.val = FirstMatch(5..11, arg_topic)

\* what the normalisation of the identifier makes of one character
NormalizedChar(ch) == IF ch = " " \/ ch = "/" THEN "_" ELSE LowerChar(ch)

(***************************************************************************)
(* C8: for a non-empty sensor name or topic suffix, _get_unique_id returns *)
(* prefix_serial_component, lower-cased, with every space and every slash  *)
(* replaced by an underscore; the component is the topic suffix if         *)
(* topic-based ids are enabled and the suffix is not empty, otherwise the  *)
(* sensor name; the prefix is "deye_inverter_mqtt" with topic-based ids    *)
(* and "deye_mqtt_inverter" without.                                       *)
(***************************************************************************)
C8_UniqueIdFormat ==
    (ret.fn = "_get_unique_id" /\ (arg_name # "" \/ arg_topic # "")) =>
        LET component == IF _use_topic_in_unique_id /\ arg_topic # ""
                         THEN arg_topic ELSE arg_name
            prefix == IF _use_topic_in_unique_id THEN "deye_inverter_mqtt"
                      ELSE "deye_mqtt_inverter"
            composed == prefix \o "_" \o config.logger.serial_number \o "_" \o component
        IN  /\ Len(ret.val) = Len(composed)
            /\ \A k \in 1..Len(composed) :
                  Char(ret.val, k) = NormalizedChar(Char(composed, k))
            /\ ( /\ arg_name = "Battery SOC"
                 /\ arg_topic = "battery/soc"
                 /\ config.logger.serial_number = "ABC123"
                 /\ ~_use_topic_in_unique_id )
               => ret.val = "deye_mqtt_inverter_abc123_battery_soc"

C8_Witness ==
    /\ ret.fn = "_get_unique_id"
    /\ arg_name = "Battery SOC"
    /\ arg_topic = "battery/soc"
    /\ ret.val = "deye_mqtt_inverter_abc123_battery_soc"

\* the endings of the cumulative topic suffixes
TotalIncreasingEndings ==
    {"_charge", "_discharge", "_energy", "_energy_bought", "_energy_sold"}

(***************************************************************************)
(* C10: _get_state_class returns "total_increasing" if and only if the     *)
(* suffix ends with "_charge", "_discharge", "_energy", "_energy_bought"   *)
(* or "_energy_sold" or is exactly "uptime", and "measurement" otherwise.  *)
(***************************************************************************)
C10_StateClass ==
    ret.fn = "_get_state_class" =>
        LET total == \/ \E e \in TotalIncreasingEndings :
                           /\ Len(arg_topic) >= Len(e)
                           /\ \A k \in 1..Len(e) :
                                 Char(arg_topic, Len(arg_topic) - Len(e) + k) = Char(e, k)
                     \/ arg_topic = "uptime"
        IN  /\ ret.val = (IF total THEN "total_increasing" ELSE "measurement")
            /\ arg_topic = "total_energy" => ret.val = "total_increasing"
            /\ arg_topic = "total_energyx" => ret.val = "measurement"

C10_Witness ==
    /\ ret.fn = "_get_state_class"
    /\ arg_topic = "total_energyx"
    /\ ret.val = "measurement"

====
